---------------------------- MODULE Spec2Model ----------------------------
(***************************************************************************)
(* Campus canteen ordering system (canteen-project/app.py).                *)
(*                                                                         *)
(* The persisted store is three tables (users, menu, orders); every        *)
(* browser client carries one Flask session (username, role, cart,         *)
(* pending_payment).  Each request handler is one atomic action.           *)
(*                                                                         *)
(* Conventions                                                             *)
(*   - Python None of a string field is the string None; None of a         *)
(*     sequence-valued field is the empty sequence.                        *)
(*   - Instants are whole seconds counted from midnight of day 0 of the    *)
(*     local wall clock; an ISO string is modelled by its fields           *)
(*     <<day, hour, minute, second>>.                                      *)
(*   - Prices are counted in eighths of a currency unit (every multiple of *)
(*     1/8 is an exact binary float, so float sums are exact); a value     *)
(*     rounded to 2 decimals is counted in hundredths.                     *)
(***************************************************************************)
EXTENDS Integers, Sequences, FiniteSets, TLC

VARIABLES
    phase,      \* "boot": module body not yet run; "running": serving requests
    users,      \* table User: set of [id, username, password_hash, role]
    menu,       \* table MenuItem: sequence, the item with id i at index i
    orders,     \* table Order: set of order records
    session,    \* per client: [username, role, cart, pending_payment]
    clock,      \* local wall clock, seconds
    tz,         \* local time minus UTC, seconds (fixed by the host)
    last        \* the last request handled: [op, flash]

vars == <<phase, users, menu, orders, session, clock, tz, last>>

None == "None"

-----------------------------------------------------------------------------
(* Bounds of the model *)

MaxOrders == 2      \* rows the order table may hold at once
MaxItems == 9       \* rows the menu table may hold (8 samples + added ones)
MaxQty == 2         \* largest absolute quantity of one cart entry

Clients == {1, 2}

-----------------------------------------------------------------------------
(* Generic helpers *)

Max(S) == CHOOSE x \in S : \A y \in S : y <= x

\* SQLite rowid of a new row: one more than the largest rowid in the table
NextId(rows) == IF rows = {} THEN 1 ELSE Max({r.id : r \in rows}) + 1

Abs(x) == IF x < 0 THEN -x ELSE x

\* werkzeug generate_password_hash / check_password_hash, an opaque pair
generate_password_hash(pw) == <<"digest", pw>>

check_password_hash(h, pw) == h = generate_password_hash(pw)

Resp(op, msg) == [op |-> op, flash |-> msg]

EmptySession == [username |-> None, role |-> None, cart |-> <<>>,
                 pending_payment |-> <<>>]

\* the decorator: 'username' in session
login_required(c) == session[c].username # None


-----------------------------------------------------------------------------
(* Start-up: default owner and sample menu *)

Item(name, price, category) ==
    [name |-> name, price |-> price, category |-> category, available |-> TRUE]

\* the eight sample rows, prices 60, 90, 50, 70, 15, 25, 30, 20
samples ==
    << Item("Veg Biryani", 60 * 8, "Main"),
       Item("Chicken Biryani", 90 * 8, "Main"),
       Item("Egg Manchuria", 50 * 8, "Snacks"),
       Item("Chicken Manchuria", 70 * 8, "Snacks"),
       Item("Samosa", 15 * 8, "Snacks"),
       Item("Idli", 25 * 8, "Tiffins"),
       Item("Dosa", 30 * 8, "Tiffins"),
       Item("Upma", 20 * 8, "Tiffins") >>

UserRow(id, username, pw, role) ==
    [id |-> id, username |-> username,
     password_hash |-> generate_password_hash(pw), role |-> role]

Owners(us) == {u \in us : u.role = "owner"}

\* the extra owner rows are not deleted
KeepOnly_all(us, owner) == us

\* the rows left when `owner` is the row .first() returned
KeepOnly(us, owner) == {u \in us : ~(u.role = "owner" /\ u.id # owner.id)}

\* The module body run at import.  filter_by(role="owner").first() has no
\* ORDER BY: any owner row may be the one returned.
bootstrap ==
    /\ phase = "boot"
    /\ phase' = "running"
    /\ IF Owners(users) = {}
       THEN /\ users' = users \cup
                  {UserRow(NextId(users), "canteen_admin", "admin123", "owner")}
            /\ last' = Resp("bootstrap", "owner created")
       ELSE \E owner \in Owners(users) :
            /\ users' = KeepOnly(users, owner)
            /\ last' = Resp("bootstrap",
                            IF Cardinality(Owners(users)) > 1
                            THEN "extra owners removed" ELSE "owner kept")
    /\ menu' = IF Len(menu) = 0 THEN samples ELSE menu
    /\ UNCHANGED <<orders, session, clock, tz>>

\* The process is stopped and started again: the store and the clients'
\* session cookies survive, the module body runs again.
restart ==
    /\ phase = "running"
    /\ phase' = "boot"
    /\ last' = Resp("restart", None)
    /\ UNCHANGED <<users, menu, orders, session, clock, tz>>

-----------------------------------------------------------------------------
(* Routes: auth *)

\* str.strip() on the usernames submitted in this model
strip(u) ==
    CASE u = " alice " -> "alice"
      [] u = "   " -> ""
      [] OTHER -> u

ByUsername(us, u) == {r \in us : r.username = u}

login(c, u, pw) ==
    /\ phase = "running"
    /\ IF \E user \in ByUsername(users, u) :
              check_password_hash(user.password_hash, pw)
       THEN LET user == CHOOSE r \in ByUsername(users, u) : TRUE IN
            /\ session' = [session EXCEPT ![c].username = user.username,
                                          ![c].role = user.role]
            /\ last' = Resp("login", "Logged in successfully")
       ELSE /\ UNCHANGED session
            /\ last' = Resp("login", "Invalid credentials")
    /\ UNCHANGED <<phase, users, menu, orders, clock, tz>>

\* the lookup is skipped
username_taken_never(us, u) == FALSE

\* User.query.filter_by(username=u).first() finds a row
username_taken(us, u) == ByUsername(us, u) # {}

register(c, username, pw) ==
    /\ phase = "running"
    /\ LET u == strip(username) IN
       IF u = "" \/ pw = ""
       THEN /\ UNCHANGED users
            /\ last' = Resp("register", "Enter username & password")
       ELSE IF u = "canteen_admin"
       THEN /\ UNCHANGED users
            /\ last' = Resp("register", "This username is reserved")
       ELSE IF username_taken(users, u)
       THEN /\ UNCHANGED users
            /\ last' = Resp("register", "Username already exists")
       ELSE /\ users' = users \cup {UserRow(NextId(users), u, pw, "user")}
            /\ last' = Resp("register", "Registration successful. Please login.")
    /\ UNCHANGED <<phase, menu, orders, session, clock, tz>>

\* the session keeps its cart and staged payment
logout_keepcart(c) ==
    /\ phase = "running"
    /\ session' = [session EXCEPT ![c].username = None, ![c].role = None]
    /\ last' = Resp("logout", "Logged out")
    /\ UNCHANGED <<phase, users, menu, orders, clock, tz>>

\* GET /logout
logout(c) ==
    /\ phase = "running"
    /\ session' = [session EXCEPT ![c] = EmptySession]
    /\ last' = Resp("logout", "Logged out")
    /\ UNCHANGED <<phase, users, menu, orders, clock, tz>>

-----------------------------------------------------------------------------
(* Menu and cart.  The cart is a Python dict kept in the session: a        *)
(* sequence of [key, qty] entries in insertion order, keys distinct.       *)

CartKeys(cart) == {cart[i].key : i \in 1..Len(cart)}

\* the quantity already in the cart is ignored
CartGet_zero(cart, k) == 0

\* cart.get(key, 0)
CartGet(cart, k) ==
    IF k \in CartKeys(cart)
    THEN (CHOOSE e \in {cart[i] : i \in 1..Len(cart)} : e.key = k).qty
    ELSE 0

\* cart[key] = q : an existing key keeps its place, a new key goes last
CartSet(cart, k, q) ==
    IF k \in CartKeys(cart)
    THEN [i \in 1..Len(cart) |->
             IF cart[i].key = k THEN [key |-> k, qty |-> q] ELSE cart[i]]
    ELSE Append(cart, [key |-> k, qty |-> q])

\* cart.pop(key)
CartPop(cart, k) == SelectSeq(cart, LAMBDA e : e.key # k)

\* MenuItem.query.get(id) finds a row
ItemExists(m, id) == id \in 1..Len(m)

add_to_cart(c, item_id, qty) ==
    /\ phase = "running"
    /\ IF ~login_required(c)
       THEN /\ UNCHANGED session
            /\ last' = Resp("add_to_cart", "Please login to continue")
       ELSE IF ~ItemExists(menu, item_id) \/ ~menu[item_id].available
       THEN /\ UNCHANGED session
            /\ last' = Resp("add_to_cart", "Item not available")
       ELSE LET cart == session[c].cart
                q == CartGet(cart, item_id) + qty IN
            /\ Abs(q) <= MaxQty
            /\ session' = [session EXCEPT ![c].cart = CartSet(cart, item_id, q)]
            /\ last' = Resp("add_to_cart", "Added to cart")
    /\ UNCHANGED <<phase, users, menu, orders, clock, tz>>

cart_remove(c, item_id) ==
    /\ phase = "running"
    /\ IF ~login_required(c)
       THEN /\ UNCHANGED session
            /\ last' = Resp("cart_remove", "Please login to continue")
       ELSE /\ session' = [session EXCEPT ![c].cart = CartPop(@, item_id)]
            /\ last' = Resp("cart_remove", "Removed from cart")
    /\ UNCHANGED <<phase, users, menu, orders, clock, tz>>

\* round(x, 2) of a float that is a whole number x of eighths, in hundredths:
\* x/8 = 12.5 * x hundredths, an exact tie when x is odd, and ties go to the
\* even neighbour
Round2(x) ==
    IF (25 * x) % 2 = 0
    THEN (25 * x) \div 2
    ELSE LET lo == (25 * x - 1) \div 2 IN
         IF lo % 2 = 0 THEN lo ELSE lo + 1

\* the line items of checkout: one per cart entry whose item row exists
LineItems(cart, m) ==
    LET found == SelectSeq(cart, LAMBDA e : ItemExists(m, e.key)) IN
    [i \in 1..Len(found) |->
        [id |-> found[i].key, name |-> m[found[i].key].name,
         qty |-> found[i].qty, price |-> m[found[i].key].price]]

RECURSIVE SumSeq(_)
SumSeq(xs) == IF xs = <<>> THEN 0 ELSE Head(xs) + SumSeq(Tail(xs))

\* the quantity is left out of the sum
CheckoutTotal_unit(items) ==
    Round2(SumSeq([i \in 1..Len(items) |-> items[i].price]))

\* total += it.price * qty over the line items, then round(total, 2)
CheckoutTotal(items) ==
    Round2(SumSeq([i \in 1..Len(items) |-> items[i].price * items[i].qty]))

\* GET /cart: the rendered rows, one per cart entry whose item row exists,
\* each with its subtotal round(price * qty, 2), and the total (hundredths)
cart_view(c) ==
    LET found == SelectSeq(session[c].cart, LAMBDA e : ItemExists(menu, e.key))
        items == [i \in 1..Len(found) |->
                    [id |-> found[i].key, name |-> menu[found[i].key].name,
                     qty |-> found[i].qty, price |-> menu[found[i].key].price,
                     subtotal |-> Round2(menu[found[i].key].price * found[i].qty)]]
    IN  [items |-> items,
         total |-> SumSeq([i \in 1..Len(items) |-> items[i].subtotal])]

\* float(request.form.get("price") or 0), except: 0.0
\* a submitted price is [kind, v]: "num" parses to v eighths, "text" does not
\* parse, "empty" is a missing or empty field
ParsePrice(p) == IF p.kind = "num" THEN p.v ELSE 0

\* the role check lets every logged-in session through
IsOwner_any(c) == TRUE

\* session.get("role") == "owner"
IsOwner(c) == session[c].role = "owner"

\* POST /owner/menu
owner_menu(c, name, price, category) ==
    /\ phase = "running"
    /\ IF ~login_required(c)
       THEN /\ UNCHANGED menu
            /\ last' = Resp("owner_menu", "Please login to continue")
       ELSE IF ~IsOwner(c)
       THEN /\ UNCHANGED menu
            /\ last' = Resp("owner_menu", "Owner access required")
       ELSE /\ Len(menu) < MaxItems
            /\ menu' = Append(menu, Item(name, ParsePrice(price),
                                  IF category = None THEN "General" ELSE category))
            /\ last' = Resp("owner_menu", "Menu item added")
    /\ UNCHANGED <<phase, users, orders, session, clock, tz>>

\* the item is switched off instead of flipped
ToggleItem_off(m, id) == [m EXCEPT ![id].available = FALSE]

\* it.available = not it.available
ToggleItem(m, id) == [m EXCEPT ![id].available = ~m[id].available]

owner_toggle(c, item_id) ==
    /\ phase = "running"
    /\ IF ~login_required(c)
       THEN /\ UNCHANGED menu
            /\ last' = Resp("owner_toggle", "Please login to continue")
       ELSE IF ~IsOwner(c)
       THEN /\ UNCHANGED menu
            /\ last' = Resp("owner_toggle", "Owner access required")
       ELSE IF ~ItemExists(menu, item_id)
       THEN /\ UNCHANGED menu
            /\ last' = Resp("owner_toggle", "404")
       ELSE /\ menu' = ToggleItem(menu, item_id)
            /\ last' = Resp("owner_toggle", "Toggled availability")
    /\ UNCHANGED <<phase, users, orders, session, clock, tz>>

-----------------------------------------------------------------------------
(* Pickup time.  A submitted "HH:MM" string is the sequence of its fields  *)
(* after split(":"), each field [ok, v]: ok says int() accepts it, v is    *)
(* the integer.  <<>> is a missing or empty string.                        *)

Day == 24 * 3600

Num(n) == [ok |-> TRUE, v |-> n]
Text == [ok |-> FALSE, v |-> 0]

\* str.upper() on the designators submitted in this model
Upper(a) ==
    CASE a = "am" -> "AM"
      [] a = "pm" -> "PM"
      [] a = "xm" -> "XM"
      [] OTHER -> a

\* 12 AM is left at hour 12
parse_time_am_pm_noon(hm_str, ampm) ==
    IF Len(hm_str) # 2 \/ \E i \in 1..Len(hm_str) : ~hm_str[i].ok
    THEN [ok |-> FALSE, hour |-> 0, minute |-> 0]
    ELSE LET hh0 == hm_str[1].v
             mm == hm_str[2].v
             hh == IF Upper(ampm) = "PM" /\ hh0 # 12 THEN (hh0 % 12) + 12 ELSE hh0
         IN  [ok |-> hh \in 0..23 /\ mm \in 0..59, hour |-> hh, minute |-> mm]

\* [ok, hour, minute]: ok is FALSE where the code raises (unpacking, int(),
\* or datetime.time() out of range)
parse_time_am_pm(hm_str, ampm) ==
    IF Len(hm_str) # 2 \/ \E i \in 1..Len(hm_str) : ~hm_str[i].ok
    THEN [ok |-> FALSE, hour |-> 0, minute |-> 0]
    ELSE LET hh0 == hm_str[1].v
             mm == hm_str[2].v
             hh1 == IF Upper(ampm) = "PM" /\ hh0 # 12 THEN (hh0 % 12) + 12 ELSE hh0
             hh == IF Upper(ampm) = "AM" /\ hh1 = 12 THEN 0 ELSE hh1
         IN  [ok |-> hh \in 0..23 /\ mm \in 0..59, hour |-> hh, minute |-> mm]

\* datetime.isoformat() and datetime.fromisoformat()
isoformat(t) == <<t \div Day, (t % Day) \div 3600, (t % 3600) \div 60, t % 60>>

fromisoformat(s) == s[1] * Day + s[2] * 3600 + s[3] * 60 + s[4]

\* strftime('%I'): the hour on a 12-hour dial
Hour12(h) == IF h % 12 = 0 THEN 12 ELSE h % 12

NoPickup == [pickup_time_str |-> <<>>, pickup_dt_iso |-> <<>>]

\* the try block of checkout; today is the day date.today() returned, now
\* the instant datetime.now() returned
pickup(order_time, order_ampm, today, now) ==
    IF order_time = <<>> \/ order_ampm = ""
    THEN NoPickup
    ELSE LET picked_time == parse_time_am_pm(order_time, order_ampm)
             pickup_dt0 == today * Day + picked_time.hour * 3600
                                       + picked_time.minute * 60
             pickup_dt == IF pickup_dt0 < now THEN pickup_dt0 + Day ELSE pickup_dt0
         IN  IF ~picked_time.ok
             THEN NoPickup
             ELSE [pickup_time_str |-> <<Hour12(picked_time.hour),
                                         picked_time.minute, Upper(order_ampm)>>,
                   pickup_dt_iso |-> isoformat(pickup_dt)]

-----------------------------------------------------------------------------
(* Checkout and payment *)

\* the row is created already in preparation
Order_preparing(id, username, items, total, token, method, paid, pk, created) ==
    [id |-> id, username |-> username, items |-> items, total_price |-> total,
     status |-> "Preparing", token |-> token, payment_method |-> method,
     payment_status |-> paid, pickup_time |-> pk.pickup_time_str,
     pickup_dt |-> pk.pickup_dt_iso, created_at |-> created]

\* Order(...): the row a checkout or a payment confirmation inserts
Order(id, username, items, total, token, method, paid, pk, created) ==
    [id |-> id, username |-> username, items |-> items, total_price |-> total,
     status |-> "Pending", token |-> token, payment_method |-> method,
     payment_status |-> paid, pickup_time |-> pk.pickup_time_str,
     pickup_dt |-> pk.pickup_dt_iso, created_at |-> created]

\* POST /checkout.  date.today() is read at `clock`, datetime.now() `skew`
\* seconds later; the row's created_at is utcnow() at the insert.
checkout(c, payment_method, order_time, order_ampm, skew, token) ==
    /\ phase = "running"
    /\ IF ~login_required(c)
       THEN /\ UNCHANGED <<orders, session, clock>>
            /\ last' = Resp("checkout", "Please login to continue")
       ELSE IF session[c].cart = <<>>
       THEN /\ UNCHANGED <<orders, session, clock>>
            /\ last' = Resp("checkout", "Cart empty")
       ELSE LET items == LineItems(session[c].cart, menu)
                total == CheckoutTotal(items)
                now == clock + skew
                pk == pickup(order_time, order_ampm, clock \div Day, now)
                username == session[c].username
            IN  /\ clock' = now
                /\ IF payment_method = "Online"
                   THEN /\ session' = [session EXCEPT ![c].pending_payment =
                               << [username |-> username, items |-> items,
                                   total |-> total, pk |-> pk] >>]
                        /\ UNCHANGED orders
                        /\ last' = Resp("checkout", "redirect to payment")
                   ELSE /\ Cardinality(orders) < MaxOrders
                        /\ orders' = orders \cup
                               {Order(NextId(orders), username, items, total, token,
                                      "Cash", "Not Paid", pk, isoformat(now - tz))}
                        /\ session' = [session EXCEPT ![c].cart = <<>>]
                        /\ last' = Resp("checkout", "Order placed (Cash). Token generated.")
    /\ UNCHANGED <<phase, users, menu, tz>>

\* the confirmation reads the cart again instead of the staged items
dummy_payment_recompute(c, token) ==
    /\ phase = "running"
    /\ IF ~login_required(c)
       THEN /\ UNCHANGED <<orders, session>>
            /\ last' = Resp("dummy_payment", "Please login to continue")
       ELSE IF session[c].pending_payment = <<>>
       THEN /\ UNCHANGED <<orders, session>>
            /\ last' = Resp("dummy_payment", "No pending payment")
       ELSE LET pending == session[c].pending_payment[1]
                items == LineItems(session[c].cart, menu) IN
            /\ Cardinality(orders) < MaxOrders
            /\ orders' = orders \cup
                   {Order(NextId(orders), session[c].username, items,
                          CheckoutTotal(items), token, "Online", "Paid",
                          pending.pk, isoformat(clock - tz))}
            /\ session' = [session EXCEPT ![c].cart = <<>>,
                                          ![c].pending_payment = <<>>]
            /\ last' = Resp("dummy_payment",
                            "Payment completed (simulated) and order placed")
    /\ UNCHANGED <<phase, users, menu, clock, tz>>

\* POST /payment/dummy
dummy_payment(c, token) ==
    /\ phase = "running"
    /\ IF ~login_required(c)
       THEN /\ UNCHANGED <<orders, session>>
            /\ last' = Resp("dummy_payment", "Please login to continue")
       ELSE IF session[c].pending_payment = <<>>
       THEN /\ UNCHANGED <<orders, session>>
            /\ last' = Resp("dummy_payment", "No pending payment")
       ELSE LET pending == session[c].pending_payment[1] IN
            /\ Cardinality(orders) < MaxOrders
            /\ orders' = orders \cup
                   {Order(NextId(orders), session[c].username, pending.items,
                          pending.total, token, "Online", "Paid", pending.pk,
                          isoformat(clock - tz))}
            /\ session' = [session EXCEPT ![c].cart = <<>>,
                                          ![c].pending_payment = <<>>]
            /\ last' = Resp("dummy_payment",
                            "Payment completed (simulated) and order placed")
    /\ UNCHANGED <<phase, users, menu, clock, tz>>

\* time passes between requests
tick(d) ==
    /\ clock' = clock + d
    /\ last' = Resp("tick", None)
    /\ UNCHANGED <<phase, users, menu, orders, session, tz>>

-----------------------------------------------------------------------------
(* Order lifecycle *)

ById(os, id) == {o \in os : o.id = id}

\* not o or o.username != username
not_yours(os, order_id, username) ==
    \A o \in ById(os, order_id) : o.username # username

\* the status check also lets a Completed order through
not_ready_lax(os, order_id) ==
    \E o \in ById(os, order_id) : o.status \notin {"Ready", "Completed"}

\* o.status != "Ready"
not_ready(os, order_id) == \E o \in ById(os, order_id) : o.status # "Ready"

\* POST /user/order/received/<order_id>
user_mark_received(c, order_id) ==
    /\ phase = "running"
    /\ IF ~login_required(c)
       THEN /\ UNCHANGED orders
            /\ last' = Resp("user_mark_received", "Please login to continue")
       ELSE IF not_yours(orders, order_id, session[c].username)
       THEN /\ UNCHANGED orders
            /\ last' = Resp("user_mark_received", "Order not found or not yours")
       ELSE IF not_ready(orders, order_id)
       THEN /\ UNCHANGED orders
            /\ last' = Resp("user_mark_received", "Order not ready yet")
       ELSE /\ orders' = orders \ ById(orders, order_id)
            /\ last' = Resp("user_mark_received", "Order received and removed")
    /\ UNCHANGED <<phase, users, menu, session, clock, tz>>

\* the update also marks the order paid
SetStatus_paid(o, new_status) ==
    [o EXCEPT !.status = new_status, !.payment_status = "Paid"]

\* o.status = new_status
SetStatus(o, new_status) == [o EXCEPT !.status = new_status]

\* POST /owner/orders
owner_orders(c, order_id, action, status) ==
    /\ phase = "running"
    /\ IF ~login_required(c)
       THEN /\ UNCHANGED orders
            /\ last' = Resp("owner_orders", "Please login to continue")
       ELSE IF ~IsOwner(c)
       THEN /\ UNCHANGED orders
            /\ last' = Resp("owner_orders", "Owner access required")
       ELSE IF ById(orders, order_id) = {}
       THEN /\ UNCHANGED orders
            /\ last' = Resp("owner_orders", None)
       ELSE IF action = "update"
       THEN /\ orders' = {IF o.id = order_id THEN SetStatus(o, status) ELSE o :
                             o \in orders}
            /\ last' = Resp("owner_orders", "Order set to status")
       ELSE IF action = "received"
       THEN /\ orders' = orders \ ById(orders, order_id)
            /\ last' = Resp("owner_orders", "Order marked Received and removed")
       ELSE IF action = "delete"
       THEN /\ orders' = orders \ ById(orders, order_id)
            /\ last' = Resp("owner_orders", "Order deleted")
       ELSE /\ UNCHANGED orders
            /\ last' = Resp("owner_orders", None)
    /\ UNCHANGED <<phase, users, menu, session, clock, tz>>

\* the key sorted() orders the owner's listing by
sort_key(o) ==
    IF o.pickup_dt # <<>>
    THEN fromisoformat(o.pickup_dt)
    ELSE fromisoformat(o.created_at)

\* o comes before p in sorted(parsed, key=sort_key): the sort is stable and
\* parsed is in descending id order
Before(o, p) ==
    \/ sort_key(o) < sort_key(p)
    \/ sort_key(o) = sort_key(p) /\ o.id > p.id

RECURSIVE SortOrders(_)
SortOrders(os) ==
    IF os = {} THEN <<>>
    ELSE LET first == CHOOSE o \in os : \A p \in os \ {o} : Before(o, p)
         IN  <<first>> \o SortOrders(os \ {first})

\* GET /owner/orders?status=<status_filter> as the owner: the rows rendered
owner_orders_list(status_filter) ==
    SortOrders(IF status_filter = ""
               THEN orders
               ELSE {o \in orders : o.status = status_filter})

-----------------------------------------------------------------------------
(* Specification of the identity store: start-up on a store left by an     *)
(* earlier run (or a migration), then registration and login.              *)

\* rows an earlier run or a data migration may have left in the user table
PreRows ==
    { UserRow(1, "canteen_admin", "admin123", "owner"),
      UserRow(2, "old_admin", "pw", "owner"),
      UserRow(3, "alice", "pw", "user") }

RegNames == {"", "   ", "alice", " alice ", "canteen_admin", "old_admin"}
RegPasswords == {"", "pw"}
LoginNames == {"canteen_admin", "alice", "old_admin"}
LoginPasswords == {"pw", "admin123"}

InitAuth ==
    /\ phase = "boot"
    /\ users \in SUBSET PreRows
    /\ menu = <<>>
    /\ orders = {}
    /\ session = [c \in Clients |-> EmptySession]
    /\ clock = 0
    /\ tz = 0
    /\ last = Resp("init", None)

NextAuth ==
    \/ bootstrap
    \/ restart
    \/ \E c \in Clients, u \in RegNames, pw \in RegPasswords : register(c, u, pw)
    \/ \E c \in Clients, u \in LoginNames, pw \in LoginPasswords : login(c, u, pw)
    \/ \E c \in Clients : logout(c)

SpecAuth == InitAuth /\ [][NextAuth]_vars

-----------------------------------------------------------------------------
(* Specification of the order lifecycle: a running system with two         *)
(* registered users; client 1 is a user's browser, client 2 the owner's.   *)

Registered ==
    { UserRow(1, "canteen_admin", "admin123", "owner"),
      UserRow(2, "alice", "pw", "user"),
      UserRow(3, "bob", "pw", "user") }

Session(username, role, cart) ==
    [username |-> username, role |-> role, cart |-> cart,
     pending_payment |-> <<>>]

Running(sessions, t) ==
    /\ phase = "running"
    /\ users = Registered
    /\ menu = samples
    /\ orders = {}
    /\ session = sessions
    /\ clock = t
    /\ tz = 0
    /\ last = Resp("init", None)

Token == "A1B2C3"
Statuses == {"Pending", "Preparing", "Ready", "Completed", "Received"}
OrderIds == 1..(MaxOrders + 1)

Init == Running([c \in Clients |-> EmptySession], Day)

Next ==
    \/ \E u \in {"alice", "bob"} : login(1, u, "pw")
    \/ login(2, "canteen_admin", "admin123")
    \/ session[1].cart = <<>> /\ add_to_cart(1, 1, 1)
    \/ cart_remove(1, 1)
    \/ checkout(1, "Cash", <<>>, "", 0, Token)
    \/ \E id \in OrderIds : user_mark_received(1, id)
    \/ \E id \in OrderIds, st \in Statuses : owner_orders(2, id, "update", st)
    \/ \E id \in OrderIds, a \in {"received", "delete"} :
          owner_orders(2, id, a, None)

Spec == Init /\ [][Next]_vars

-----------------------------------------------------------------------------
(* Specification of menu and cart: alice shops on client 1 while the owner *)
(* on client 2 adds items and toggles availability; one order is open at a *)
(* time (the owner hands it over before alice shops again).                *)

CartItems == {1, 2, MaxItems}
Quantities == {1, 2}
Prices == { [kind |-> "num", v |-> 3], [kind |-> "num", v |-> -1],
            [kind |-> "text", v |-> 0], [kind |-> "empty", v |-> 0] }
ToggleIds == {1, MaxItems, MaxItems + 1}

InitMenu ==
    Running([c \in Clients |->
                IF c = 1 THEN Session("alice", "user", <<>>)
                ELSE Session("canteen_admin", "owner", <<>>)], Day)

NextMenu ==
    \/ \E i \in CartItems, q \in Quantities : orders = {} /\ add_to_cart(1, i, q)
    \/ \E i \in CartItems : cart_remove(1, i)
    \/ \E p \in Prices : owner_menu(2, "Tea", p, None)
    \/ \E i \in ToggleIds : owner_toggle(2, i)
    \/ orders = {} /\ checkout(1, "Cash", <<>>, "", 0, Token)
    \/ owner_orders(2, 1, "received", None)

SpecMenu == InitMenu /\ [][NextMenu]_vars

-----------------------------------------------------------------------------
(* Specification of pickup times: alice, one Veg Biryani in her cart,      *)
(* checks out at some instant of day 1 with some pickup time; an Online    *)
(* checkout is then confirmed.  The clock may move between the two clock   *)
(* reads of the first checkout.                                            *)

HM(h, m) == <<Num(h), Num(m)>>

TimeInputs ==
    { <<>>, HM(1, 0), HM(6, 0), HM(12, 0), HM(12, 30), HM(11, 59), HM(13, 0),
      HM(0, 0), HM(24, 0), HM(-1, 30), HM(10, 60), <<Text>>, <<Num(12)>>,
      <<Num(1), Num(2), Num(3)>>, <<Num(12), Text>> }
AmPmInputs == {"AM", "PM", "pm", "XM", ""}
Methods == {"Cash", "Online"}

StartClocks ==
    { Day, Day + 13 * 3600, Day + 13 * 3600 + 1, Day + 15 * 3600,
      Day + Day - 1 }
Skews == {0, 2}

InitPickup ==
    \E t \in StartClocks :
        Running([c \in Clients |->
                    IF c = 1
                    THEN Session("alice", "user", <<[key |-> 1, qty |-> 1]>>)
                    ELSE EmptySession], t)

NextPickup ==
    \/ \E m \in Methods, ot \in TimeInputs, ap \in AmPmInputs,
          skew \in IF clock \in StartClocks THEN Skews ELSE {0} :
          checkout(1, m, ot, ap, skew, Token)
    \/ dummy_payment(1, Token)

SpecPickup == InitPickup /\ [][NextPickup]_vars

-----------------------------------------------------------------------------
(* Specification of an afternoon at the counter: alice places Cash orders  *)
(* with and without a pickup time, the owner marks some Ready, hands some  *)
(* over, adds an item and toggles one.                                     *)

ListEnd == Day + 18 * 3600
NewPrice == [kind |-> "num", v |-> 45 * 8]

InitList ==
    Running([c \in Clients |->
                IF c = 1 THEN Session("alice", "user", <<>>)
                ELSE Session("canteen_admin", "owner", <<>>)], Day + 15 * 3600)

NextList ==
    \/ session[1].cart = <<>> /\ add_to_cart(1, 1, 1)
    \/ \E ot \in {HM(1, 0), HM(6, 0)} : checkout(1, "Cash", ot, "PM", 0, Token)
    \/ checkout(1, "Cash", <<>>, "", 0, Token)
    \/ clock + 3 * 3600 <= ListEnd /\ tick(3 * 3600)
    \/ \E id \in OrderIds : owner_orders(2, id, "update", "Ready")
    \/ \E id \in OrderIds : owner_orders(2, id, "received", None)
    \/ cart_remove(1, 1)
    \/ owner_menu(2, "Tea", NewPrice, None)
    \/ owner_toggle(2, 1)

SpecList == InitList /\ [][NextList]_vars

-----------------------------------------------------------------------------
(* Specification of the cart: alice adds any quantity (zero and negative   *)
(* ones too) of items that exist, are switched off or do not exist, while  *)
(* the owner toggles availability; one order is open at a time.            *)

CartIds == {1, 2, MaxItems + 1}
CartQuantities == {-1, 0, 1, 2}

InitCart ==
    Running([c \in Clients |->
                IF c = 1 THEN Session("alice", "user", <<>>)
                ELSE Session("canteen_admin", "owner", <<>>)], Day)

NextCart ==
    \/ \E i \in CartIds, q \in CartQuantities :
          orders = {} /\ add_to_cart(1, i, q)
    \/ \E i \in CartIds : cart_remove(1, i)
    \/ \E i \in {1, 2} : owner_toggle(2, i)
    \/ orders = {} /\ checkout(1, "Cash", <<>>, "", 0, Token)
    \/ owner_orders(2, 1, "received", None)

SpecCart == InitCart /\ [][NextCart]_vars

-----------------------------------------------------------------------------
(* Specification of checkout and payment in one browser: alice logs in and *)
(* out, fills her cart, checks out by Cash or Online and confirms (or does *)
(* not confirm) the staged payment.                                        *)

PayItems == {1, 2}

InitPay == Running([c \in Clients |-> EmptySession], Day)

NextPay ==
    \/ login(1, "alice", "pw")
    \/ logout(1)
    \/ \E i \in PayItems :
          i \notin CartKeys(session[1].cart) /\ add_to_cart(1, i, 1)
    \/ \E i \in PayItems : cart_remove(1, i)
    \/ \E m \in Methods : checkout(1, m, <<>>, "", 0, Token)
    \/ dummy_payment(1, Token)

SpecPay == InitPay /\ [][NextPay]_vars

-----------------------------------------------------------------------------
(* Specification of the 12-hour pickup form: alice checks out by Cash at   *)
(* 13:00 with every hour 1..12, minute 0..59 and designator AM or PM; the  *)
(* owner hands the order over and alice shops again.                       *)

Hours == 1..12
Minutes == 0..59
Designators == {"AM", "PM"}

InitParse ==
    Running([c \in Clients |->
                IF c = 1
                THEN Session("alice", "user", <<[key |-> 1, qty |-> 1]>>)
                ELSE Session("canteen_admin", "owner", <<>>)], Day + 13 * 3600)

NextParse ==
    \/ \E h \in Hours, m \in Minutes, ap \in Designators :
          session[1].cart # <<>> /\ checkout(1, "Cash", HM(h, m), ap, 0, Token)
    \/ owner_orders(2, 1, "received", None)
    \/ session[1].cart = <<>> /\ orders = {} /\ add_to_cart(1, 1, 1)

SpecParse == InitParse /\ [][NextParse]_vars

-----------------------------------------------------------------------------
(* Specification of access control: client 1 is anonymous or logged in as  *)
(* alice or bob and sends every kind of request, the owner's ones too;     *)
(* client 2 is the owner, who marks orders Ready and hands them over.      *)

InitRoles ==
    Running([c \in Clients |->
                IF c = 1 THEN EmptySession
                ELSE Session("canteen_admin", "owner", <<>>)], Day)

NextRoles ==
    \/ \E u \in {"alice", "bob"} : login(1, u, "pw")
    \/ logout(1)
    \/ session[1].cart = <<>> /\ add_to_cart(1, 1, 1)
    \/ cart_remove(1, 1)
    \/ checkout(1, "Cash", <<>>, "", 0, Token)
    \/ dummy_payment(1, Token)
    \/ \E id \in OrderIds : user_mark_received(1, id)
    \/ owner_menu(1, "Tea", NewPrice, None)
    \/ owner_toggle(1, 1)
    \/ \E id \in OrderIds, a \in {"update", "received", "delete"} :
          owner_orders(1, id, a, "Ready")
    \/ \E id \in OrderIds : owner_orders(2, id, "update", "Ready")
    \/ \E id \in OrderIds : owner_orders(2, id, "received", None)

SpecRoles == InitRoles /\ [][NextRoles]_vars

-----------------------------------------------------------------------------
(* Specification of a staged payment: alice stages Online checkouts, with  *)
(* or without a pickup time, changes her cart and confirms, while the      *)
(* owner adds an item and toggles one; one order is open at a time.        *)

StageTimes == {<<>>, HM(6, 0)}

InitStage ==
    Running([c \in Clients |->
                IF c = 1 THEN Session("alice", "user", <<>>)
                ELSE Session("canteen_admin", "owner", <<>>)], Day + 13 * 3600)

NextStage ==
    \/ \E i \in PayItems :
          i \notin CartKeys(session[1].cart) /\ add_to_cart(1, i, 1)
    \/ \E i \in PayItems : cart_remove(1, i)
    \/ \E ot \in StageTimes : checkout(1, "Online", ot, "PM", 0, Token)
    \/ orders = {} /\ dummy_payment(1, Token)
    \/ owner_menu(2, "Tea", NewPrice, None)
    \/ owner_toggle(2, 1)
    \/ owner_orders(2, 1, "received", None)

SpecStage == InitStage /\ [][NextStage]_vars

-----------------------------------------------------------------------------
(* Claims about the order lifecycle *)

\* C1: user_mark_received removes an order only when it exists, belongs to
\* the calling user and has status exactly Ready, and then removes exactly
\* that order; in every other case the order table is unchanged.
C1_ReceivedOnlyOwnReady ==
    [][\A c \in Clients, id \in OrderIds :
          user_mark_received(c, id) =>
             LET mine == {o \in orders : /\ o.id = id
                                         /\ o.username = session[c].username
                                         /\ o.status = "Ready"}
             IN  orders' = orders \ mine]_vars

\* a user's own Completed order was refused and is still in the table
C1_Witness ==
    /\ last = Resp("user_mark_received", "Order not ready yet")
    /\ \E o \in orders : o.username = session[1].username /\ o.status = "Completed"
    /\ \E o \in orders : o.username # session[1].username

\* C2: an order in the table keeps every recorded field except its status,
\* whatever operation runs: a row is only re-statused or deleted.
C2_SnapshotImmutable ==
    [][\A o \in orders : \A p \in orders' :
          p.id = o.id => p = [o EXCEPT !.status = p.status]]_vars

\* an order of one Veg Biryani at 60 survives a status update, the item being
\* switched off and a new item being added
C2_Witness ==
    /\ Len(menu) > Len(samples)
    /\ ~menu[1].available
    /\ \E o \in orders :
          /\ o.status = "Ready"
          /\ o.items = << [id |-> 1, name |-> "Veg Biryani", qty |-> 1,
                           price |-> 60 * 8] >>
          /\ o.total_price = 6000

\* C10: no order in the table has status Received.
C10_NoStoredReceived == \A o \in orders : o.status # "Received"

-----------------------------------------------------------------------------
(* Claims about the identity store *)

\* C4: once the start-up code has run, the user table holds exactly one
\* owner row, whatever the table held before and whatever start-ups,
\* registrations and logins follow (so registration never adds an owner).
C4_ExactlyOneOwner ==
    (phase = "running" \/ last.op = "restart") =>
        Cardinality(Owners(users)) = 1

\* the start-up found several owners and removed old_admin, who then
\* registered again and is an ordinary user
C4_Witness ==
    /\ phase = "running"
    /\ last = Resp("register", "Registration successful. Please login.")
    /\ \E u \in users : u.username = "old_admin" /\ u.role = "user"

\* C5: a registration whose username is in the user table, is the reserved
\* name canteen_admin, or is empty, or whose password is empty, leaves the
\* user table unchanged; usernames in the table are pairwise distinct.
C5_RegisterRejects ==
    /\ [][\A c \in Clients, u \in RegNames, pw \in RegPasswords :
             ( /\ register(c, u, pw)
               /\ \/ ByUsername(users, u) # {}
                  \/ u = "canteen_admin"
                  \/ u = ""
                  \/ pw = "" ) => users' = users]_vars
    /\ [](\A a \in users, b \in users : a.username = b.username => a = b)

\* a registration under a taken username was refused
C5_Witness ==
    /\ last = Resp("register", "Username already exists")
    /\ Cardinality(users) > 1

-----------------------------------------------------------------------------
(* Claims about menu and cart *)

\* sum of quantity times unit price over the first n recorded line items
RECURSIVE LineSum(_, _)
LineSum(items, n) ==
    IF n = 0 THEN 0
    ELSE items[n].qty * items[n].price + LineSum(items, n - 1)

\* C7: the total_price of every order is the sum over its recorded line
\* items of quantity times unit price, rounded to 2 decimals: no hundredth
\* is nearer to the sum (the sum is in eighths, the total in hundredths).
C7_TotalIsSum ==
    \A o \in orders :
        Abs(8 * o.total_price - 100 * LineSum(o.items, Len(o.items))) <= 4

\* the cart {Veg Biryani: 2, Chicken Biryani: 1} at 60 and 90 gave 210.00
C7_Witness ==
    \E o \in orders :
        /\ o.items = << [id |-> 1, name |-> "Veg Biryani", qty |-> 2,
                         price |-> 60 * 8],
                        [id |-> 2, name |-> "Chicken Biryani", qty |-> 1,
                         price |-> 90 * 8] >>
        /\ o.total_price = 21000

\* C8: a toggle of an existing item by the owner flips that item's
\* availability and leaves its name and price and every other item alone, a
\* second toggle of the same item gives back the menu as it was, and a
\* toggle of an id that is not in the menu changes nothing.
C8_DoubleToggle ==
    [][\A c \in Clients, id \in ToggleIds :
          (owner_toggle(c, id) /\ IsOwner(c)) =>
             IF ItemExists(menu, id)
             THEN /\ Len(menu') = Len(menu)
                  /\ menu'[id].available = ~menu[id].available
                  /\ menu'[id].name = menu[id].name
                  /\ menu'[id].price = menu[id].price
                  /\ \A j \in 1..Len(menu) : j # id => menu'[j] = menu[j]
                  /\ ToggleItem(menu', id) = menu
             ELSE menu' = menu]_vars

\* the added item was toggled off and on again while item 1 stayed off
C8_Witness ==
    /\ last = Resp("owner_toggle", "Toggled availability")
    /\ Len(menu) = MaxItems
    /\ menu[MaxItems].available
    /\ ~menu[1].available

-----------------------------------------------------------------------------
(* Claims about pickup times and the owner's listing *)

HasPickup(o) == o.pickup_dt # <<>>

\* C3: in the owner's listing, with or without a status filter, orders with
\* a pickup timestamp are in ascending order of it, every order without one
\* comes after all orders that have one, and the orders without one are in
\* order of creation.
C3_ListingOrder ==
    \A f \in {"", "Pending", "Ready"} :
        LET L == owner_orders_list(f) IN
        \A i \in 1..Len(L), j \in 1..Len(L) :
            i < j =>
               /\ (HasPickup(L[i]) /\ HasPickup(L[j])) =>
                     fromisoformat(L[i].pickup_dt) <= fromisoformat(L[j].pickup_dt)
               /\ ~(~HasPickup(L[i]) /\ HasPickup(L[j]))
               /\ (~HasPickup(L[i]) /\ ~HasPickup(L[j])) =>
                     fromisoformat(L[i].created_at) <= fromisoformat(L[j].created_at)

\* the order or staged payment a checkout step has just written
Written(c) ==
    IF orders' # orders
    THEN {[pickup_time |-> o.pickup_time, pickup_dt |-> o.pickup_dt] :
             o \in orders' \ orders}
    ELSE {[pickup_time |-> session'[c].pending_payment[i].pk.pickup_time_str,
           pickup_dt |-> session'[c].pending_payment[i].pk.pickup_dt_iso] :
             i \in 1..Len(session'[c].pending_payment)}

\* C6: a checkout that records a pickup timestamp records the next
\* occurrence of the requested clock time: with `now` the instant of the
\* checkout, the requested time on the day of `now` if that is not before
\* `now`, else the same time one day later; so the timestamp is never before
\* `now` and never more than 24 hours after it.
C6_NextOccurrence ==
    [][\A m \in Methods, ot \in TimeInputs, ap \in AmPmInputs, skew \in Skews :
          (checkout(1, m, ot, ap, skew, Token) /\ session[1].cart # <<>>) =>
             \A w \in Written(1) :
                w.pickup_dt # <<>> =>
                   LET now == clock'
                       req == parse_time_am_pm(ot, ap)
                       cand == (now \div Day) * Day + req.hour * 3600
                                                    + req.minute * 60
                       p == fromisoformat(w.pickup_dt)
                   IN  /\ p = IF cand < now THEN cand + Day ELSE cand
                       /\ now <= p
                       /\ p <= now + Day]_vars

\* C9: a checkout whose HH:MM value is non-numeric or malformed, or whose
\* designator is anything other than AM or PM, records neither a display
\* pickup time nor a pickup timestamp, and a Cash checkout still creates the
\* order.
C9_ParseFailureGivesNull ==
    [][\A m \in Methods, ot \in TimeInputs, ap \in AmPmInputs, skew \in Skews :
          ( /\ checkout(1, m, ot, ap, skew, Token)
            /\ session[1].cart # <<>>
            /\ \/ Len(ot) # 2
               \/ \E i \in 1..Len(ot) : ~ot[i].ok
               \/ Upper(ap) \notin {"AM", "PM"} ) =>
             /\ \A w \in Written(1) : w.pickup_time = <<>> /\ w.pickup_dt = <<>>
             /\ m = "Cash" => orders' # orders]_vars

-----------------------------------------------------------------------------
(* Claims about the cart *)

\* the quantity a cart holds under a key, 0 when the key is absent
QtyOf(cart, k) ==
    IF \E n \in 1..Len(cart) : cart[n].key = k
    THEN cart[CHOOSE n \in 1..Len(cart) : cart[n].key = k].qty
    ELSE 0

\* C11: add_to_cart on an item id that is not in the menu, or whose item is
\* switched off, fails and leaves the session (the cart with it) unchanged;
\* on an available item the cart entry becomes the quantity it held (0 if
\* absent) plus the submitted quantity and no other entry changes.
C11_AddAccumulates ==
    [][\A i \in CartIds, q \in CartQuantities :
          add_to_cart(1, i, q) =>
             LET cart == session[1].cart
                 cart2 == session'[1].cart
             IN  IF ~ItemExists(menu, i) \/ ~menu[i].available
                 THEN /\ session' = session
                      /\ last'.flash = "Item not available"
                 ELSE /\ CartKeys(cart2) = CartKeys(cart) \cup {i}
                      /\ QtyOf(cart2, i) = QtyOf(cart, i) + q
                      /\ \A k \in CartKeys(cart) \ {i} :
                            QtyOf(cart2, k) = QtyOf(cart, k)
                      /\ Len(cart2) = Cardinality(CartKeys(cart2))]_vars

\* two additions of one Veg Biryani made an entry of 2, and an addition of
\* the switched-off Chicken Biryani was then refused
C11_Witness ==
    /\ last = Resp("add_to_cart", "Item not available")
    /\ ~menu[2].available
    /\ session[1].cart = << [key |-> 2, qty |-> 1], [key |-> 1, qty |-> 2] >>

\* C12: every quantity in a session cart, and every quantity in a line item
\* of an order, is a positive integer.
C12_PositiveQuantities ==
    /\ \A c \in Clients : \A n \in 1..Len(session[c].cart) :
           session[c].cart[n].qty > 0
    /\ \A o \in orders : \A n \in 1..Len(o.items) : o.items[n].qty > 0

\* C14: the rows of the cart view and the line items of an order created at
\* checkout are items that are available at that moment, and a toggle leaves
\* the quantity entries of the session carts alone.
C14_DisabledItemDropped ==
    /\ [](\A c \in Clients : \A n \in 1..Len(cart_view(c).items) :
             menu[cart_view(c).items[n].id].available)
    /\ [][ /\ \A o \in orders' \ orders : \A n \in 1..Len(o.items) :
                  menu[o.items[n].id].available
           /\ menu' # menu => session' = session ]_vars

\* C13: the price of every item in the menu is non-negative.
C13_PriceNonNegative == \A i \in 1..Len(menu) : menu[i].price >= 0

-----------------------------------------------------------------------------
(* Claims about checkout and payment *)

\* C15: a Cash checkout of a non-empty cart creates one order, Pending and
\* Not Paid; an Online checkout creates no order and stages a payment; an
\* Online order enters the table only in a payment confirmation of a staged
\* payment of the same session, Pending and Paid; a checkout with an empty
\* cart (or without a login) creates no order and changes no session.
C15_OrderCreation ==
    [][ /\ \A o \in orders' \ orders :
              /\ o.status = "Pending"
              /\ \/ /\ o.payment_method = "Cash"
                    /\ o.payment_status = "Not Paid"
                    /\ checkout(1, "Cash", <<>>, "", 0, Token)
                 \/ /\ o.payment_method = "Online"
                    /\ o.payment_status = "Paid"
                    /\ dummy_payment(1, Token)
                    /\ session[1].pending_payment # <<>>
        /\ \A m \in Methods :
              checkout(1, m, <<>>, "", 0, Token) =>
                 IF ~login_required(1) \/ session[1].cart = <<>>
                 THEN orders' = orders /\ session' = session
                 ELSE IF m = "Online"
                 THEN orders' = orders /\ session'[1].pending_payment # <<>>
                 ELSE orders \subseteq orders'
                      /\ Cardinality(orders' \ orders) = 1 ]_vars

\* a Cash order (Not Paid) and a confirmed Online order (Paid) are in the
\* table, both Pending
C15_Witness ==
    /\ last = Resp("dummy_payment", "Payment completed (simulated) and order placed")
    /\ \E o \in orders : /\ o.payment_method = "Cash"
                          /\ o.payment_status = "Not Paid"
                          /\ o.status = "Pending"
    /\ \E o \in orders : /\ o.payment_method = "Online"
                          /\ o.payment_status = "Paid"
                          /\ o.status = "Pending"

\* C16: a step that creates an order leaves the creating session's cart
\* empty; logout empties the cart and the staged payment; an Online checkout
\* leaves the cart as it was; and an entry leaves a cart only in an order
\* creation, an explicit removal or a logout.
C16_CartCleared ==
    [][ /\ orders' \ orders # {} => session'[1].cart = <<>>
        /\ logout(1) => /\ session'[1].cart = <<>>
                        /\ session'[1].pending_payment = <<>>
        /\ checkout(1, "Online", <<>>, "", 0, Token) =>
              session'[1].cart = session[1].cart
        /\ CartKeys(session[1].cart) \ CartKeys(session'[1].cart) # {} =>
              \/ orders' \ orders # {}
              \/ logout(1)
              \/ \E i \in PayItems : cart_remove(1, i) ]_vars

\* after a confirmed Online order emptied the cart, a new cart of two items
\* was staged for payment and is still whole
C16_Witness ==
    /\ last = Resp("checkout", "redirect to payment")
    /\ Len(session[1].cart) = 2
    /\ \E o \in orders : o.payment_method = "Online"

\* C20: after a step that creates an order no payment remains staged in the
\* creating session.
C20_NoStagedAfterOrder ==
    [][orders' \ orders # {} => session'[1].pending_payment = <<>>]_vars

\* the 24-hour hour a display string <<hour12, minute, designator>> denotes
DisplayHour(d) ==
    IF d[3] = "PM" /\ d[1] # 12 THEN d[1] + 12
    ELSE IF d[3] = "AM" /\ d[1] = 12 THEN 0
    ELSE d[1]

\* C19: when an order holds both a display pickup time with designator AM
\* or PM and a pickup timestamp, the display time converted back to 24-hour
\* time is the hour and minute of the timestamp.
C19_DisplayMatchesTimestamp ==
    \A o \in orders :
        (o.pickup_time # <<>> /\ o.pickup_dt # <<>>
            /\ o.pickup_time[3] \in {"AM", "PM"}) =>
           /\ DisplayHour(o.pickup_time) = o.pickup_dt[2]
           /\ o.pickup_time[2] = o.pickup_dt[3]

\* the hour the 12-hour form value (h, ap) stands for
Hour24(h, ap) ==
    IF ap = "PM" /\ h # 12 THEN h + 12
    ELSE IF ap = "AM" /\ h = 12 THEN 0
    ELSE h

\* C17: for every hour 1..12, minute 0..59 and designator AM or PM,
\* parse_time_am_pm gives hour + 12 for PM and hour # 12, 0 for AM and hour
\* 12, the hour itself otherwise, and the minute unchanged; the order a
\* checkout with that input creates carries that time of day.
C17_TwelveToTwentyFour ==
    [][\A h \in Hours, m \in Minutes, ap \in Designators :
          (session[1].cart # <<>>
              /\ checkout(1, "Cash", HM(h, m), ap, 0, Token)) =>
             /\ parse_time_am_pm(HM(h, m), ap) =
                   [ok |-> TRUE, hour |-> Hour24(h, ap), minute |-> m]
             /\ \A o \in orders' \ orders :
                   /\ o.pickup_dt # <<>>
                   /\ o.pickup_dt[2] = Hour24(h, ap)
                   /\ o.pickup_dt[3] = m]_vars

\* a pickup at 12:30 AM was recorded as 00:30 of the next day
C17_Witness ==
    \E o \in orders :
        /\ o.pickup_time = <<12, 30, "AM">>
        /\ o.pickup_dt = <<2, 0, 30, 0>>

-----------------------------------------------------------------------------
(* Claims about access control *)

\* a request of client c to a handler behind login_required
Request(c) ==
    \/ add_to_cart(c, 1, 1)
    \/ cart_remove(c, 1)
    \/ checkout(c, "Cash", <<>>, "", 0, Token)
    \/ dummy_payment(c, Token)
    \/ \E id \in OrderIds : user_mark_received(c, id)
    \/ owner_menu(c, "Tea", NewPrice, None)
    \/ owner_toggle(c, 1)
    \/ \E id \in OrderIds, a \in {"update", "received", "delete"} :
          owner_orders(c, id, a, "Ready")

-----------------------------------------------------------------------------
(* Claims about the staged payment *)

\* C21: an Online checkout of a non-empty cart stages the line items, total
\* and pickup time of that moment, replacing what was staged; no other step
\* changes what is staged, except that a confirmation and a logout drop it;
\* and the order a confirmation creates has exactly the staged line items,
\* total and pickup time, whatever the cart and the menu are by then.
C21_StagedOrder ==
    [][ /\ \A ot \in StageTimes :
              (checkout(1, "Online", ot, "PM", 0, Token)
                  /\ session[1].cart # <<>>) =>
                 /\ Len(session'[1].pending_payment) = 1
                 /\ session'[1].pending_payment[1].items =
                       LineItems(session[1].cart, menu)
                 /\ session'[1].pending_payment[1].total =
                       Round2(LineSum(LineItems(session[1].cart, menu),
                                      Len(LineItems(session[1].cart, menu))))
                 /\ session'[1].pending_payment[1].pk =
                       pickup(ot, "PM", clock \div Day, clock)
        /\ session'[1].pending_payment # session[1].pending_payment =>
              \/ \E ot \in StageTimes :
                    checkout(1, "Online", ot, "PM", 0, Token)
              \/ orders' \ orders # {} /\ session'[1].pending_payment = <<>>
        /\ \A o \in orders' \ orders :
              o.payment_method = "Online" =>
                 /\ session[1].pending_payment # <<>>
                 /\ o.items = session[1].pending_payment[1].items
                 /\ o.total_price = session[1].pending_payment[1].total
                 /\ o.pickup_time =
                       session[1].pending_payment[1].pk.pickup_time_str
                 /\ o.pickup_dt =
                       session[1].pending_payment[1].pk.pickup_dt_iso ]_vars

\* an order of one Veg Biryani with pickup 06:00 PM was confirmed after the
\* owner had added an item and switched Veg Biryani off
C21_Witness ==
    /\ last = Resp("dummy_payment", "Payment completed (simulated) and order placed")
    /\ ~menu[1].available
    /\ Len(menu) > Len(samples)
    /\ \E o \in orders :
          /\ o.payment_method = "Online"
          /\ o.items = << [id |-> 1, name |-> "Veg Biryani", qty |-> 1,
                           price |-> 60 * 8] >>
          /\ o.total_price = 6000
          /\ o.pickup_time = <<6, 0, "PM">>

=============================================================================
